---- MODULE Spec2Model ----
(***************************************************************************)
(* Waitlist routes of backend/src/routes/waitlist.ts: join, count, list,   *)
(* delete and bulk-email handlers running concurrently over one subscriber *)
(* store and one email provider.  A handler runs atomically from one await *)
(* to the next; every await of the store or of the provider is one step.   *)
(***************************************************************************)
EXTENDS Integers, Sequences, FiniteSets, Bags, TLC

VARIABLES apiKey, store, inflight, last, started, inserted, deleted, welcomed,
          joined, gone, stale

vars == <<apiKey, store, inflight, last, started, inserted, deleted, welcomed,
          joined, gone, stale>>

(* ------------------------------ bounds ------------------------------- *)

\* requests started in one behaviour
MaxReq == 3
\* handlers in flight at the same time
MaxFlight == 2
\* recipients of one bulk-email request
MaxBatch == 2

(* ------------------------------ inputs ------------------------------- *)

\* email strings are sequences of characters
EmailA == <<"a", "@", "x", ".", "i", "o">>
EmailB == <<"b", "@", "x", ".", "i", "o">>
NoTld == <<"a", "@", "x">>
Empty == << >>

Letters == {"a", "b", "x", "i", "o"}

Keys == {EmailA, EmailB}

\* request bodies of POST /join; hasBody = FALSE is a request without a body
JoinInputs ==
  { [hasBody |-> TRUE, name |-> "Al", email |-> EmailA, role |-> "customer"],
    [hasBody |-> TRUE, name |-> "Bo", email |-> EmailA, role |-> "provider"],
    [hasBody |-> TRUE, name |-> "Al", email |-> EmailB, role |-> "customer"],
    [hasBody |-> TRUE, name |-> "",   email |-> EmailA, role |-> "customer"],
    [hasBody |-> TRUE, name |-> "Al", email |-> Empty,  role |-> "customer"],
    [hasBody |-> TRUE, name |-> "Al", email |-> NoTld,  role |-> "customer"],
    [hasBody |-> TRUE, name |-> "Al", email |-> EmailA, role |-> ""],
    [hasBody |-> TRUE, name |-> "Al", email |-> EmailA, role |-> "admin"],
    [hasBody |-> TRUE, name |-> "",   email |-> NoTld,  role |-> "admin"],
    [hasBody |-> FALSE, name |-> "",  email |-> Empty,  role |-> ""] }

\* the :email path parameter of DELETE /subscriber/:email
DeleteInputs == {EmailA, EmailB, Empty}

\* the first n recipients of a fixed recipient list
RECURSIVE Recipients(_)
Recipients(n) ==
  IF n = 0 THEN << >>
  ELSE Append(Recipients(n - 1), IF n % 2 = 1 THEN EmailA ELSE EmailB)

\* request bodies of POST /bulk-email
BulkInputs ==
  { [hasBody |-> TRUE, subject |-> "Hi", body |-> "News", emails |-> Recipients(n)] :
      n \in 0..MaxBatch }
  \cup
  { [hasBody |-> TRUE, subject |-> "",   body |-> "News", emails |-> Recipients(1)],
    [hasBody |-> TRUE, subject |-> "Hi", body |-> "",     emails |-> Recipients(1)],
    [hasBody |-> FALSE, subject |-> "",  body |-> "",     emails |-> << >>] }

\* what one awaited provider call can do: resolve without error, resolve
\* with an error object, or reject
SendOutcomes == {"ok", "error", "throw"}

(* ----------------------------- messages ------------------------------ *)

MsgAllFields == "All fields are required"
MsgName == "Name is required"
MsgEmail == "Invalid email address"
MsgRoleRequired == "Role is required"
MsgRoleEnum == "Invalid enum value"
MsgConflict == "This email is already on the waitlist"
MsgEmailFailed == "Email failed"
MsgEmailService == "Email service error"
MsgNotConfigured == "Email service not configured"
MsgJoined == "You have been added to the waitlist! Check your email for confirmation."
MsgUnexpected == "An unexpected error occurred. Please try again."
MsgListError == "Error fetching subscribers"
MsgEmailRequired == "Email is required"
MsgNotFound == "Subscriber not found"
MsgDeleted == "Subscriber deleted successfully"
MsgDeleteError == "An unexpected error occurred while deleting subscriber."
MsgNoKey == "Resend API key not configured."
MsgBulkFields == "Subject, body, and at least one recipient are required."
MsgBulkFailed == "Failed to send to"
MsgBulkSent == "Sent to subscriber(s)"
MsgBulkError == "An error occurred while sending emails."

(* ---------------------------- validation ----------------------------- *)

\* positions of character c in s
Positions(s, c) == {i \in 1..Len(s) : s[i] = c}

\* z.string().email(): one "@", a non-empty local part that neither starts
\* nor ends with a dot, no two dots in a row, and a domain of non-empty
\* labels whose last label has at least two letters
IsEmail(s) ==
  /\ Cardinality(Positions(s, "@")) = 1
  /\ LET at == CHOOSE i \in Positions(s, "@") : TRUE
         dots == {i \in Positions(s, ".") : i > at}
     IN /\ at > 1
        /\ s[1] # "."
        /\ s[at - 1] # "."
        /\ \A i \in 1..(Len(s) - 1) : ~(s[i] = "." /\ s[i + 1] = ".")
        /\ \A i \in 1..Len(s) : i # at => s[i] \in Letters \cup {"."}
        /\ at < Len(s)
        /\ s[at + 1] # "."
        /\ dots # {}
        /\ LET tld == CHOOSE d \in dots : \A e \in dots : e <= d
           IN Len(s) - tld >= 2

\* if (!name || !email || !role)
JoinRequired(name, email, role) == name # "" /\ email # Empty /\ role # ""

\* the issues zod reports, in the order of the schema's keys
SchemaErrors(name, email, role) ==
  (IF name = "" THEN <<MsgName>> ELSE << >>)
  \o (IF ~IsEmail(email) THEN <<MsgEmail>> ELSE << >>)
  \o (IF role = "" THEN <<MsgRoleRequired>>
      ELSE IF role \notin {"customer", "provider"} THEN <<MsgRoleEnum>>
      ELSE << >>)

\* a response, or status 0: the handler goes on
Go == [status |-> 0, message |-> ""]

Reply(status, message) == [status |-> status, message |-> message]

\* JoinValidate without the schema: only the presence test of line 30
JoinValidateNoSchema(in) ==
  IF ~in.hasBody THEN Reply(500, MsgUnexpected)
  ELSE IF ~JoinRequired(in.name, in.email, in.role) THEN Reply(400, MsgAllFields)
  ELSE Go

\* the synchronous head of the join handler
JoinValidate(in) ==
  IF ~in.hasBody THEN Reply(500, MsgUnexpected)
  ELSE IF ~JoinRequired(in.name, in.email, in.role) THEN Reply(400, MsgAllFields)
  ELSE LET errs == SchemaErrors(in.name, in.email, in.role)
       IN IF errs # << >> THEN Reply(400, errs[1]) ELSE Go

(* --------------------- the subscriber store -------------------------- *)

\* the record of lines 46-51; joinedAt, the clock reading of line 50, is
\* written once and read by no handler, and is left out
Subscriber(name, email, role) == [name |-> name, email |-> email, role |-> role]

Has(s, email) == \E x \in s : x.email = email

\* add-if-absent, atomic
StoreAdd(s, sub) ==
  IF Has(s, sub.email) THEN [added |-> FALSE, store |-> s]
  ELSE [added |-> TRUE, store |-> s \cup {sub}]

\* delete-by-key
StoreDelete(s, email) ==
  IF Has(s, email) THEN [deleted |-> TRUE, store |-> {x \in s : x.email # email}]
  ELSE [deleted |-> FALSE, store |-> s]

StoreCount(s) == Cardinality(s)

StoreAll(s) == s

(* --------------------- handler decisions ----------------------------- *)

\* JoinAddOutcome without the test of lines 55-60: a join goes on to the
\* welcome email whatever addSubscriber returned
JoinAddOutcomeNoConflict(added) ==
  IF added = "fault" THEN Reply(500, MsgUnexpected) ELSE Go

\* addSubscriber rejected, returned false, or returned true
JoinAddOutcome(added) ==
  IF added = "fault" THEN Reply(500, MsgUnexpected)
  ELSE IF added = "no" THEN Reply(409, MsgConflict)
  ELSE Go

\* JoinSendOutcome with a best-effort welcome email: a failed send is
\* logged and the join goes on
JoinSendOutcomeBestEffort(key, res) == Go

\* the welcome email block
JoinSendOutcome(key, res) ==
  IF key
  THEN IF res = "throw" THEN Reply(500, MsgEmailService)
       ELSE IF res = "error" THEN Reply(500, MsgEmailFailed)
       ELSE Go
  ELSE Reply(500, MsgNotConfigured)

\* JoinCountOutcome answering success, with a count of 0, when the count
\* read fails
JoinCountOutcomeLenient(fault, cnt) ==
  [status |-> 200, message |-> MsgJoined, count |-> IF fault THEN 0 ELSE cnt]

\* the final count read and the success response
JoinCountOutcome(fault, cnt) ==
  IF fault THEN [status |-> 500, message |-> MsgUnexpected, count |-> -1]
  ELSE [status |-> 200, message |-> MsgJoined, count |-> cnt]

\* CountResponse with the error reported as the other handlers report it
CountResponseError(fault, cnt) ==
  IF fault THEN [status |-> 500, count |-> -1] ELSE [status |-> 200, count |-> cnt]

\* CountResponse with the degraded answer given in every case
CountResponseZero(fault, cnt) == [status |-> 200, count |-> 0]

\* GET /count
CountResponse(fault, cnt) ==
  IF fault THEN [status |-> 200, count |-> 0] ELSE [status |-> 200, count |-> cnt]

\* GET /subscribers
ListResponse(fault, all) ==
  IF fault THEN [status |-> 500, message |-> MsgListError, subscribers |-> {}]
  ELSE [status |-> 200, message |-> "", subscribers |-> all]

\* DeleteOutcome without the test of lines 159-164: an idempotent delete
DeleteOutcomeIdempotent(res) ==
  IF res = "fault" THEN Reply(500, MsgDeleteError) ELSE Reply(200, MsgDeleted)

\* DELETE /subscriber/:email, after deleteSubscriber
DeleteOutcome(res) ==
  IF res = "fault" THEN Reply(500, MsgDeleteError)
  ELSE IF res = "no" THEN Reply(404, MsgNotFound)
  ELSE Reply(200, MsgDeleted)

\* BulkValidate without the test of the API key of lines 183-188
BulkValidateNoKeyTest(key, in) ==
  IF in.subject = "" \/ in.body = "" \/ Len(in.emails) = 0
  THEN Reply(400, MsgBulkFields)
  ELSE Go

\* the checks of bulk-email before any send
BulkValidate(key, in) ==
  IF ~key THEN Reply(500, MsgNoKey)
  ELSE IF in.subject = "" \/ in.body = "" \/ Len(in.emails) = 0
       THEN Reply(400, MsgBulkFields)
  ELSE Go

\* results.filter(r => r.error), as the recipients it names
Failed(emails, results) ==
  LET F[i \in 0..Len(emails)] ==
        IF i = 0 THEN << >>
        ELSE IF results[i] = "error" THEN Append(F[i - 1], emails[i]) ELSE F[i - 1]
  IN F[Len(emails)]

\* Promise.all: rejected as soon as one send rejects, fulfilled once every
\* send has resolved, pending otherwise
PromiseAll(results) ==
  IF \E i \in 1..Len(results) : results[i] = "throw" THEN "rejected"
  ELSE IF \A i \in 1..Len(results) : results[i] # "pending" THEN "fulfilled"
  ELSE "pending"

\* the await of Promise.all and the response that follows it: none while
\* it is pending (status 0)
BulkOutcome(emails, results) ==
  IF PromiseAll(results) = "pending"
  THEN [status |-> 0, message |-> "", named |-> << >>]
  ELSE IF PromiseAll(results) = "rejected"
  THEN [status |-> 500, message |-> MsgBulkError, named |-> << >>]
  ELSE IF Len(Failed(emails, results)) > 0
       THEN [status |-> 500, message |-> MsgBulkFailed, named |-> Failed(emails, results)]
  ELSE [status |-> 200, message |-> MsgBulkSent, named |-> << >>]

(* ------------------------------ state -------------------------------- *)

\* apiKey    whether process.env.RESEND_API_KEY is set
\* store     the subscriber records
\* inflight  the bag of handlers in flight: the request each serves, where
\*           it stands and what its awaits returned
\* last      the request that responded in the latest step with its
\*           response, Blank when the latest step produced no response
\* started   the number of requests received
\* inserted, deleted, welcomed   per email: insertions and deletions that
\*           succeeded in the store, welcome emails sent
\* joined    the number of join requests answered with success
\* gone      the emails deleted and not inserted again since
\* stale     the emails whose record was inserted by a join that then failed
\*           at the welcome email, the record not deleted since

Blank ==
  [op |-> "none", pc |-> "idle", hasBody |-> TRUE,
   name |-> "", email |-> Empty, role |-> "",
   subject |-> "", body |-> "", emails |-> << >>, results |-> << >>,
   added |-> "none", sendRes |-> "none", countRes |-> "none",
   status |-> 0, message |-> "", count |-> -1, subscribers |-> {},
   named |-> << >>, escaped |-> FALSE,
   adds |-> 0, sends |-> 0, issued |-> << >>, epoch |-> 0]

Handlers == BagToSet(inflight)

Pending(r) == \E i \in 1..Len(r.results) : r.results[i] = "pending"

\* a new request can be received
Fresh == started < MaxReq /\ BagCardinality(inflight) < MaxFlight

Tally(f, k) == IF k \in DOMAIN f THEN f[k] ELSE 0

Bump(f, k) == IF k \in DOMAIN f THEN [f EXCEPT ![k] = @ + 1] ELSE f

Init ==
  /\ apiKey \in BOOLEAN
  /\ store = {}
  /\ inflight = EmptyBag
  /\ last = Blank
  /\ started = 0
  /\ inserted = [k \in Keys |-> 0]
  /\ deleted = [k \in Keys |-> 0]
  /\ welcomed = [k \in Keys |-> 0]
  /\ joined = 0
  /\ gone = {}
  /\ stale = {}

\* the handler old (an empty bag: a new handler) either goes on as r, or
\* responds as r and leaves; the sends of r that are pending then stay
\* pending in the record of its response, and nobody reads how they settle
Step(old, r) ==
  IF r.status = 0 /\ ~r.escaped
  THEN /\ inflight' = (inflight (-) old) (+) SetToBag({r})
       /\ last' = Blank
  ELSE /\ inflight' = inflight (-) old
       /\ last' = [r EXCEPT !.pc = "done"]

(* ---------------------------- POST /join ------------------------------ *)

\* lines 26-53: the body is read and validated, the record is built and
\* addSubscriber is called
JoinStart(in) ==
  /\ Fresh
  /\ LET v == JoinValidate(in)
     IN Step(EmptyBag,
             [Blank EXCEPT !.op = "join", !.hasBody = in.hasBody,
                           !.name = in.name, !.email = in.email,
                           !.role = in.role,
                           !.status = v.status, !.message = v.message,
                           !.pc = "add"])
  /\ started' = started + 1
  /\ UNCHANGED <<apiKey, store, inserted, deleted, welcomed, joined, gone, stale>>

\* lines 53-60: addSubscriber settles
JoinAdd(r, fault) ==
  /\ r \in Handlers
  /\ r.pc = "add"
  /\ LET a == StoreAdd(store, Subscriber(r.name, r.email, r.role))
         added == IF fault THEN "fault" ELSE IF a.added THEN "yes" ELSE "no"
         v == JoinAddOutcome(added)
     IN /\ store' = IF fault THEN store ELSE a.store
        /\ inserted' = IF added = "yes" THEN Bump(inserted, r.email) ELSE inserted
        /\ gone' = IF added = "yes" THEN gone \ {r.email} ELSE gone
        /\ Step(SetToBag({r}),
                [r EXCEPT !.added = added, !.adds = @ + 1,
                          !.epoch = IF added = "yes" THEN Tally(deleted, r.email) ELSE @,
                          !.status = v.status,
                          !.message = v.message, !.pc = "send"])
  /\ UNCHANGED <<apiKey, started, deleted, welcomed, joined, stale>>

\* JoinSend taking the record out of the store again when the send failed
JoinSendRollback(r, res) ==
  /\ r \in Handlers
  /\ r.pc = "send"
  /\ res \in (IF apiKey THEN SendOutcomes ELSE {"nokey"})
  /\ LET v == JoinSendOutcome(apiKey, res)
     IN /\ welcomed' = IF res = "ok" THEN Bump(welcomed, r.email) ELSE welcomed
        /\ store' = IF res = "ok" THEN store ELSE StoreDelete(store, r.email).store
        /\ Step(SetToBag({r}),
                [r EXCEPT !.sendRes = res,
                          !.sends = IF apiKey THEN @ + 1 ELSE @,
                          !.status = v.status,
                          !.message = v.message, !.pc = "count"])
  /\ UNCHANGED <<apiKey, started, inserted, deleted, joined, gone, stale>>

\* JoinSend with a second attempt after a send that failed
JoinSendRetry(r, res) ==
  /\ r \in Handlers
  /\ r.pc = "send"
  /\ res \in (IF apiKey THEN SendOutcomes ELSE {"nokey"})
  /\ LET v == JoinSendOutcome(apiKey, res)
         again == res \in {"error", "throw"} /\ r.sends = 0
     IN /\ welcomed' = IF res = "ok" THEN Bump(welcomed, r.email) ELSE welcomed
        /\ stale' = IF res # "ok" /\ ~again /\ r.epoch = Tally(deleted, r.email)
                    THEN stale \cup {r.email} ELSE stale
        /\ Step(SetToBag({r}),
                IF again
                THEN [r EXCEPT !.sends = @ + 1]
                ELSE [r EXCEPT !.sendRes = res,
                               !.sends = IF apiKey THEN @ + 1 ELSE @,
                               !.status = v.status,
                               !.message = v.message, !.pc = "count"])
  /\ UNCHANGED <<apiKey, store, started, inserted, deleted, joined, gone>>

\* lines 63-99: the welcome email
JoinSend(r, res) ==
  /\ r \in Handlers
  /\ r.pc = "send"
  /\ res \in (IF apiKey THEN SendOutcomes ELSE {"nokey"})
  /\ LET v == JoinSendOutcome(apiKey, res)
     IN /\ welcomed' = IF res = "ok" THEN Bump(welcomed, r.email) ELSE welcomed
        /\ stale' = IF res # "ok" /\ r.epoch = Tally(deleted, r.email)
                    THEN stale \cup {r.email} ELSE stale
        /\ Step(SetToBag({r}),
                [r EXCEPT !.sendRes = res,
                          !.sends = IF apiKey THEN @ + 1 ELSE @,
                          !.status = v.status,
                          !.message = v.message, !.pc = "count"])
  /\ UNCHANGED <<apiKey, store, started, inserted, deleted, joined, gone>>

\* lines 101-114: getSubscriberCount settles, the success response
JoinCount(r, fault) ==
  /\ r \in Handlers
  /\ r.pc = "count"
  /\ LET v == JoinCountOutcome(fault, StoreCount(store))
     IN /\ joined' = IF v.status = 200 THEN joined + 1 ELSE joined
        /\ Step(SetToBag({r}),
                [r EXCEPT !.countRes = IF fault THEN "fault" ELSE "ok",
                          !.status = v.status, !.message = v.message,
                          !.count = v.count])
  /\ UNCHANGED <<apiKey, store, started, inserted, deleted, welcomed, gone, stale>>

(* ---------------------------- GET /count ------------------------------ *)

\* lines 118-126
Count(fault) ==
  /\ Fresh
  /\ LET v == CountResponse(fault, StoreCount(store))
     IN last' = [Blank EXCEPT !.op = "count", !.pc = "done",
                              !.countRes = IF fault THEN "fault" ELSE "ok",
                              !.status = v.status, !.count = v.count]
  /\ started' = started + 1
  /\ UNCHANGED <<apiKey, store, inflight, inserted, deleted, welcomed, joined, gone, stale>>

(* ------------------------- GET /subscribers --------------------------- *)

\* lines 129-143
List(fault) ==
  /\ Fresh
  /\ LET v == ListResponse(fault, StoreAll(store))
     IN last' = [Blank EXCEPT !.op = "list", !.pc = "done",
                              !.countRes = IF fault THEN "fault" ELSE "ok",
                              !.status = v.status, !.message = v.message,
                              !.subscribers = v.subscribers]
  /\ started' = started + 1
  /\ UNCHANGED <<apiKey, store, inflight, inserted, deleted, welcomed, joined, gone, stale>>

(* --------------------- DELETE /subscriber/:email ---------------------- *)

\* lines 146-177
Delete(email, fault) ==
  /\ Fresh
  /\ IF email = Empty
     THEN /\ ~fault
          /\ last' = [Blank EXCEPT !.op = "delete", !.pc = "done", !.email = email,
                                   !.status = 400, !.message = MsgEmailRequired]
          /\ UNCHANGED <<store, deleted, gone, stale>>
     ELSE LET d == StoreDelete(store, email)
              res == IF fault THEN "fault" ELSE IF d.deleted THEN "yes" ELSE "no"
              v == DeleteOutcome(res)
          IN /\ store' = IF fault THEN store ELSE d.store
             /\ deleted' = IF res = "yes" THEN Bump(deleted, email) ELSE deleted
             /\ gone' = IF res = "yes" THEN gone \cup {email} ELSE gone
             /\ stale' = IF res = "yes" THEN stale \ {email} ELSE stale
             /\ last' = [Blank EXCEPT !.op = "delete", !.pc = "done",
                                      !.email = email, !.added = res,
                                      !.status = v.status, !.message = v.message]
  /\ started' = started + 1
  /\ UNCHANGED <<apiKey, inflight, inserted, welcomed, joined>>

(* ------------------------- POST /bulk-email --------------------------- *)

\* lines 180-211: the body is read outside the try block, the request is
\* checked, and one send per recipient is issued
BulkStart(in) ==
  /\ Fresh
  /\ LET v == BulkValidate(apiKey, in)
     IN Step(EmptyBag,
             IF ~in.hasBody
             THEN [Blank EXCEPT !.op = "bulk", !.hasBody = FALSE, !.escaped = TRUE]
             ELSE [Blank EXCEPT !.op = "bulk", !.subject = in.subject,
                                !.body = in.body, !.emails = in.emails,
                                !.results = IF v.status = 0
                                            THEN [i \in 1..Len(in.emails) |-> "pending"]
                                            ELSE << >>,
                                !.issued = IF v.status = 0
                                           THEN [i \in 1..Len(in.emails) |-> 1]
                                           ELSE << >>,
                                !.status = v.status, !.message = v.message,
                                !.pc = "sending"])
  /\ started' = started + 1
  /\ UNCHANGED <<apiKey, store, inserted, deleted, welcomed, joined, gone, stale>>

\* lines 201-231: one send settles; the handler resumes as soon as
\* Promise.all has settled
BulkSettle(r, i, res) ==
  /\ r \in Handlers
  /\ r.pc = "sending"
  /\ i \in 1..Len(r.results)
  /\ r.results[i] = "pending"
  /\ LET results == [r.results EXCEPT ![i] = res]
         v == BulkOutcome(r.emails, results)
     IN Step(SetToBag({r}),
             [r EXCEPT !.results = results, !.status = v.status,
                       !.message = v.message, !.named = v.named])
  /\ UNCHANGED <<apiKey, store, started, inserted, deleted, welcomed, joined, gone, stale>>

(* --------------------------- specification ---------------------------- *)

Next ==
  \/ \E in \in JoinInputs : JoinStart(in)
  \/ \E r \in Handlers, fault \in BOOLEAN : JoinAdd(r, fault)
  \/ \E r \in Handlers, res \in SendOutcomes \cup {"nokey"} : JoinSend(r, res)
  \/ \E r \in Handlers, fault \in BOOLEAN : JoinCount(r, fault)
  \/ \E fault \in BOOLEAN : Count(fault)
  \/ \E fault \in BOOLEAN : List(fault)
  \/ \E email \in DeleteInputs, fault \in BOOLEAN : Delete(email, fault)
  \/ \E in \in BulkInputs : BulkStart(in)
  \/ \E r \in Handlers, i \in 1..MaxBatch, res \in SendOutcomes : BulkSettle(r, i, res)

Spec == Init /\ [][Next]_vars

(* ------------------------------ claims ------------------------------- *)

\* the join handlers in flight for email k that inserted their record
Admitting(k) ==
  LET S == {r \in Handlers : r.op = "join" /\ r.email = k /\ r.added = "yes"}
  IN BagCardinality([r \in S |-> inflight[r]])

\* the handlers in flight that stand at pc
At(pc) == {r \in Handlers : r.pc = pc}

\* C1: for every email address the store insertion succeeds at most once
\* and at most one welcome email is sent, whatever requests are served,
\* deletes and later joins of the same address included
C1_OneAdmissionEver ==
  \A k \in Keys : inserted[k] <= 1 /\ welcomed[k] <= 1

\* C1, amended: for every email address the insertions that succeeded are
\* at most one more than the deletes that succeeded, and the welcome emails
\* sent are at most the insertions that succeeded
C1_OneAdmissionPerDelete ==
  \A k \in Keys : inserted[k] <= deleted[k] + 1 /\ welcomed[k] <= inserted[k]

\* an address admitted and welcomed, deleted, and admitted and welcomed again
C1_Witness ==
  inserted[EmailA] = 2 /\ welcomed[EmailA] = 2 /\ deleted[EmailA] = 1

\* C2: a join that finds no record for its email inserts exactly the
\* record of its request and, when its welcome email and its count read go
\* through, is answered with success; a join that finds a record is answered
\* with 409, sends nothing and leaves the store as it was, with one record
\* for that email
C2_JoinOnceThenConflict ==
  [][ /\ \A r \in At("add") :
           CopiesIn(r, inflight') < CopiesIn(r, inflight)
           => \/ store' = store /\ last'.added = "fault"
              \/ /\ ~Has(store, r.email)
                 /\ store' = store \cup {Subscriber(r.name, r.email, r.role)}
                 /\ Cardinality({x \in store' : x.email = r.email}) = 1
                 /\ last' = Blank
              \/ /\ Has(store, r.email)
                 /\ store' = store
                 /\ Cardinality({x \in store' : x.email = r.email}) = 1
                 /\ welcomed' = welcomed
                 /\ last'.op = "join" /\ last'.email = r.email
                 /\ last'.status = 409 /\ last'.sendRes = "none"
      /\ (last'.op = "join" /\ last'.added = "yes" /\ last'.sendRes = "ok"
            /\ last'.countRes = "ok")
         => last'.status = 200 /\ last'.count = Cardinality(store')
      /\ (last'.op = "join" /\ last'.added = "no")
         => last'.status = 409 /\ last'.sendRes = "none"
    ]_vars

\* a second join of an admitted and welcomed address, under another name
\* and role, answered with 409 while the first record is the one stored
C2_Witness ==
  /\ last.op = "join" /\ last.status = 409 /\ last.name = "Bo"
  /\ store = {Subscriber("Al", EmailA, "customer")}
  /\ inserted[EmailA] = 1 /\ welcomed[EmailA] = 1 /\ joined = 1

\* C3: of the joins of one email that run at the same time, with no delete
\* of it, at most one inserts a record and sends a welcome email; every
\* other one whose add returns is answered with 409 and sends nothing
C3_ConcurrentJoinsAdmitOne ==
  \A k \in Keys :
    deleted[k] = 0 =>
      /\ inserted[k] <= 1
      /\ welcomed[k] <= 1
      /\ Admitting(k) <= 1
      /\ \A r \in Handlers :
           (r.op = "join" /\ r.email = k /\ r.pc \in {"send", "count"})
           => r.added = "yes"
      /\ (last.op = "join" /\ last.email = k /\ last.added = "no")
         => last.status = 409 /\ last.sendRes = "none"
      /\ (last.op = "join" /\ last.email = k /\ last.added = "yes")
         => Admitting(k) = 0

\* two joins of one address in flight together: one answered with 409 while
\* the one that inserted has not responded yet
C3_Witness ==
  /\ last.op = "join" /\ last.email = EmailA /\ last.status = 409
  /\ Admitting(EmailA) = 1
  /\ deleted[EmailA] = 0

\* C4: a join with an empty name, a malformed email or a role outside
\* {customer, provider} is answered with 400, and the step that answers 400
\* changes neither the store nor the emails sent
C4_InvalidJoinNoEffect ==
  [][ /\ (last'.op = "join" /\ last'.hasBody
            /\ (last'.name = "" \/ ~IsEmail(last'.email)
                  \/ last'.role \notin {"customer", "provider"}))
         => last'.status = 400
      /\ (last'.op = "join" /\ last'.status = 400)
         => /\ store' = store
            /\ welcomed' = welcomed
            /\ inserted' = inserted
            /\ last'.added = "none" /\ last'.sendRes = "none"
    ]_vars

\* a join with a role outside the enum rejected while the store holds a
\* record
C4_Witness ==
  /\ last.op = "join" /\ last.status = 400 /\ last.role = "admin"
  /\ last.name # "" /\ IsEmail(last.email)
  /\ store # {}

\* C5: a join that inserted its record and whose welcome email failed (an
\* error returned, a send that throws, no API key) is answered with 500 by
\* a step that leaves the store as it was: the record stays unless a delete
\* request removed it
C5_FailedSendKeepsRecord ==
  [][ (last'.op = "join" /\ last'.added = "yes"
         /\ last'.sendRes \in {"error", "throw", "nokey"})
      => /\ last'.status = 500
         /\ store' = store
         /\ (Has(store', last'.email) \/ last'.email \in gone')
    ]_vars

\* a join answered with 500 after its send failed, its record in the store
C5_Witness ==
  /\ last.op = "join" /\ last.status = 500 /\ last.sendRes = "error"
  /\ Subscriber(last.name, last.email, last.role) \in store
  /\ welcomed[last.email] = 0

\* a per-email counter summed over the emails
Total(f) == f[EmailA] + f[EmailB]

C7_CountNeverFails ==
  last.op = "count"
  => /\ last.status = 200
     /\ ~last.escaped
     /\ last.countRes \in {"ok", "fault"}
     /\ last.countRes = "fault" => last.count = 0
     /\ last.countRes = "ok" => last.count = Cardinality(store)

\* a count answered with 0 while the store holds a record
C7_Witness ==
  last.op = "count" /\ last.countRes = "fault" /\ last.count = 0 /\ store # {}

\* C8: a delete of an email that has a record removes that record and is
\* answered with success; while no join inserts that email again, a list
\* does not contain it and a delete of it is answered with 404; a delete of
\* an email without a record is answered with 404 and leaves the store as
\* it was (requests whose store call fails are set apart)
C8_DeleteThenGone ==
  [][ /\ (last'.op = "delete" /\ last'.email # Empty /\ last'.added # "fault")
         => IF Has(store, last'.email)
            THEN /\ last'.status = 200
                 /\ store' = {x \in store : x.email # last'.email}
                 /\ Cardinality(store') = Cardinality(store) - 1
                 /\ last'.email \in gone'
            ELSE /\ last'.status = 404
                 /\ store' = store
      /\ (last'.op = "delete" /\ last'.email \in gone /\ last'.added # "fault")
         => last'.status = 404
      /\ (last'.op = "list" /\ last'.status = 200)
         => /\ last'.subscribers = store'
            /\ \A k \in gone' : ~Has(last'.subscribers, k)
    ]_vars

\* the second delete of an address deleted before, answered with 404
C8_Witness ==
  /\ last.op = "delete" /\ last.status = 404 /\ last.email = EmailA
  /\ EmailA \in gone /\ deleted[EmailA] = 1 /\ inserted[EmailA] = 1

\* the recipients of r whose send failed, in the order of the list
Unsent(r) ==
  LET F[i \in 0..Len(r.results)] ==
        IF i = 0 THEN << >>
        ELSE IF r.results[i] \in {"error", "throw"}
             THEN Append(F[i - 1], r.emails[i]) ELSE F[i - 1]
  IN F[Len(r.results)]

\* C9: a bulk-email request of which some sends failed is answered with a
\* failure that names exactly the recipients whose send failed
C9_FailureNamesTheFailed ==
  (last.op = "bulk" /\ Len(Unsent(last)) > 0)
  => /\ last.status = 500
     /\ last.named = Unsent(last)

\* C10: a bulk-email request is answered only when none of its sends is
\* outstanding
C10_ResponseAfterAllSends ==
  (last.op = "bulk" /\ last.status # 0) => ~Pending(last)

\* the bulk-email handlers in flight
Sending == {r \in Handlers : r.op = "bulk"}

\* C11: a bulk-email request that is rejected up front issues no send: it
\* is answered 500 when the API key is not set, 400 when the subject, the
\* body or the recipient list is empty; sends are in flight only for
\* requests that passed both tests
C11_RejectedBulkSendsNothing ==
  /\ (last.op = "bulk" /\ last.hasBody /\ ~apiKey)
     => last.status = 500 /\ last.message = MsgNoKey /\ last.results = << >>
  /\ (last.op = "bulk" /\ last.hasBody /\ apiKey
        /\ (last.subject = "" \/ last.body = "" \/ Len(last.emails) = 0))
     => last.status = 400 /\ last.results = << >>
  /\ \A r \in Sending :
       apiKey /\ r.subject # "" /\ r.body # "" /\ Len(r.emails) > 0

\* a request with two recipients answered 500 without a send, the API key
\* not being set
C11_Witness ==
  /\ last.op = "bulk" /\ last.status = 500 /\ ~apiKey
  /\ Len(last.emails) = 2 /\ last.results = << >>

\* the statuses of the outcome classes
Statuses == {200, 400, 404, 409, 500}

\* C12: every request is answered with a status of one of the outcome
\* classes, and no fault leaves its handler uncaught
C12_NothingEscapes ==
  last.op # "none" => ~last.escaped /\ last.status \in Statuses

\* C13: a join rejected by validation carries the message of the first
\* violated constraint in the order name, email, role
C13_FirstViolatedMessage ==
  (last.op = "join" /\ last.hasBody /\ last.status = 400)
  => IF last.name = "" THEN last.message = MsgName
     ELSE IF ~IsEmail(last.email) THEN last.message = MsgEmail
     ELSE last.message \in {MsgRoleRequired, MsgRoleEnum}

\* the requests being served and the request answered last
Requests == Handlers \cup {last}

\* C14: no operation retries. A join calls addSubscriber at most once and
\* the email provider at most once, and exactly once each when it is
\* answered with success; a bulk-email request that passed its checks calls
\* the email provider exactly once for every entry of its recipient list,
\* whatever the sends return
C14_NoRetry ==
  \A r \in Requests :
    /\ r.op = "join"
       => /\ r.adds <= 1 /\ r.sends <= 1
          /\ r.added # "none" => r.adds = 1
          /\ r.sendRes \in SendOutcomes => r.sends = 1
          /\ r.status = 200 => r.adds = 1 /\ r.sends = 1
    /\ r.op = "bulk"
       => /\ Len(r.issued) = Len(r.results)
          /\ r.results # << >> => Len(r.issued) = Len(r.emails)
          /\ \A i \in 1..Len(r.issued) : r.issued[i] = 1

\* a bulk-email request answered after a send that failed, one send issued
\* for each of its two recipients, beside a join that has inserted its
\* record and sent its welcome email once
C14_Witness ==
  /\ last.op = "bulk" /\ last.status = 500
  /\ \E i \in 1..Len(last.results) : last.results[i] \in {"error", "throw"}
  /\ last.issued = <<1, 1>>
  /\ \E r \in At("count") : r.adds = 1 /\ r.sends = 1

\* C15: a join is answered with success only if it inserted its record,
\* its welcome email was sent without error and its count read succeeded;
\* a join whose count read fails after both is answered with the generic
\* 500, and its record and its welcome email stay as they are
C15_SuccessNeedsAllThree ==
  [][ /\ (last'.op = "join" /\ last'.status = 200)
         => last'.added = "yes" /\ last'.sendRes = "ok" /\ last'.countRes = "ok"
      /\ (last'.op = "join" /\ last'.countRes = "fault")
         => /\ last'.status = 500 /\ last'.message = MsgUnexpected
            /\ last'.added = "yes" /\ last'.sendRes = "ok"
            /\ store' = store /\ inserted' = inserted /\ welcomed' = welcomed
    ]_vars

\* a join answered 500 when its count read failed, its record in the store
\* and its welcome email sent
C15_Witness ==
  /\ last.op = "join" /\ last.countRes = "fault" /\ last.status = 500
  /\ Has(store, last.email) /\ welcomed[last.email] = 1

\* C16: once a join has inserted its record and failed at the welcome
\* email, the record stays in the store until it is deleted, and every join
\* for that email whose addSubscriber call settles meanwhile without a
\* fault is answered 409, sends no welcome email and leaves the store as
\* it is
C16_StrandedRecordBlocksJoin ==
  [][ /\ \A k \in stale : Has(store, k)
      /\ \A r \in At("add") :
           ( /\ CopiesIn(r, inflight') < CopiesIn(r, inflight)
             /\ r.email \in stale
             /\ last'.added # "fault" )
           => /\ last'.op = "join" /\ last'.email = r.email
              /\ last'.status = 409 /\ last'.message = MsgConflict
              /\ last'.sendRes = "none" /\ last'.sends = 0
              /\ store' = store /\ welcomed' = welcomed
    ]_vars

\* a join answered 409 for an address whose record was left by a join that
\* failed at the welcome email, no welcome email ever sent to it
C16_Witness ==
  /\ last.op = "join" /\ last.status = 409
  /\ last.email \in stale /\ welcomed[last.email] = 0

\* C17: count, list and bulk-email leave the store as it is; the store
\* changes only when a join that passed validation inserts the record of
\* its request for an email that has none, and when a delete removes the
\* record of its email, and every other record stays as it is
C17_OnlyJoinAndDeleteWrite ==
  [][ /\ last'.op \in {"count", "list", "bulk"} => store' = store
      /\ (\E r \in Sending : CopiesIn(r, inflight') # CopiesIn(r, inflight))
         => store' = store
      /\ store' # store
         => \/ \E r \in At("add") :
                 /\ CopiesIn(r, inflight') < CopiesIn(r, inflight)
                 /\ ~Has(store, r.email)
                 /\ store' = store \cup {Subscriber(r.name, r.email, r.role)}
            \/ /\ last'.op = "delete" /\ Has(store, last'.email)
               /\ store' = {x \in store : x.email # last'.email}
    ]_vars

\* a bulk-email request answered with success while the store holds a
\* record
C17_Witness ==
  last.op = "bulk" /\ last.status = 200 /\ store # {}

====
